---------------------------- MODULE Spec2Model ----------------------------
(***************************************************************************)
(* A model of the Lohpi control plane: the directory server core (gossip  *)
(* handler, direct-message handler, handshake), the membership database,  *)
(* the cache-backed dataset lookup service and the storage node's dataset *)
(* checkout path and the mux HTTP handlers.  Every subsystem has its own  *)
(* specification (SpecGossip, SpecMsg, SpecMember, SpecMemberRemove,      *)
(* SpecCheckout, SpecLookup, SpecLookupConc for concurrent callers of the *)
(* lookup service, SpecRollback and its fair variant SpecRollbackLive,    *)
(* SpecMux); a specification leaves the variables of the other subsystems *)
(* unchanged.                                                             *)
(***************************************************************************)
EXTENDS Integers, Sequences, FiniteSets, TLC

VARIABLES
    \* --- directory server: gossip handling ---
    gossipMsg,        \* the gossip envelope currently disseminated by the network
    deliveries,       \* how many times gossipMsg was handed to gossipMessageHandler
    gossipObs,        \* the observation ledger: identifiers recorded by InsertObservedGossip
    applyLog,         \* arguments of the applyPolicy invocations made for gossipMsg, in order
    lastGossip,       \* the last delivery: signature validity, result, number of applyPolicy calls
    applyEffects,     \* per applyPolicy invocation in applyLog: checkout status seen, error, effect
    dsCheckedOut,     \* datasets the checkout manager reports as checked out
    dsPolicies,       \* datasets for which the directory server holds or has published a policy
    \* --- directory server: direct messages ---
    dsLookup,         \* dataset identifier -> name of the owning node ("" when absent)
    lookupPre,        \* dsLookup as it was when the last direct message arrived
    lastMsg,          \* the last direct message handled
    msgRet,           \* what messageHandler returned for it
    \* --- membership database ---
    storageNodeTable, \* rows of the node table
    lastHandshake,    \* per node name, the node of the most recent successful Handshake
    hsRet,            \* result of the last Handshake
    lastRemove,       \* the last dbDeleteNetworkNode call: argument, table before, result
    \* --- storage node: dataset checkout ---
    allowMultipleCheckouts, \* config.AllowMultipleCheckouts
    datasetCheckoutTable,   \* the checkout records, in insertion order
    pc,               \* per HTTP request, its position in getDataset
    req,              \* per HTTP request, its dataset identifier and Authorization header
    resp,             \* per HTTP request, the response written
    \* --- dataset lookup service ---
    redisConfigured,  \* d.redisClient != nil
    cache,            \* Redis: key -> marshalled node (<<>> when absent)
    store,            \* PostgreSQL lookup table: key -> node (<<>> when absent)
    lastOp,           \* the last lookup-service call and its result
    \* --- directory server: rollback of a checkout ---
    rollback,         \* the rollbackCheckout call: position, channel, context, result
    \* --- dataset lookup service: concurrent callers ---
    calls,            \* per concurrent caller, its call, its position in it and its locals
    \* --- mux: HTTP handlers ---
    idsReq,           \* getNetworkDatasetIdentifiers: handler, worker goroutine, channels
    muxResp           \* getDatasetMetadata / getDataset: the call and what it wrote

gossipVars   == <<gossipMsg, deliveries, gossipObs, applyLog, lastGossip,
                 applyEffects, dsCheckedOut, dsPolicies>>
msgVars      == <<dsLookup, lookupPre, lastMsg, msgRet>>
memVars      == <<storageNodeTable, lastHandshake, hsRet, lastRemove>>
checkoutVars == <<allowMultipleCheckouts, datasetCheckoutTable, pc, req, resp>>
lookupVars   == <<redisConfigured, cache, store, lastOp>>
rollbackVars == <<rollback>>
concVars     == <<calls>>
muxVars      == <<idsReq, muxResp>>
vars == <<gossipVars, msgVars, memVars, checkoutVars, lookupVars, rollbackVars, concVars, muxVars>>

(***************************************************************************)
(* Shared value domains                                                    *)
(***************************************************************************)
DatasetIds == {"d1", "d2"}
NodeNames  == {"n1", "n2"}

\* Go's zero values / nil pointers
NoOwner == ""
Nil     == <<>>
Some(v) == <<v>>

(***************************************************************************)
(* Idle values of each subsystem (the state after construction)            *)
(***************************************************************************)
NoGossipMsg == [type |-> "none", gossipMessage |-> Nil]
NoDelivery  == [delivered |-> FALSE, sigOk |-> TRUE, ret |-> "nil", calls |-> 0]

GossipIdle ==
    /\ gossipMsg = NoGossipMsg
    /\ deliveries = 0
    /\ gossipObs = {}
    /\ applyLog = <<>>
    /\ lastGossip = NoDelivery
    /\ applyEffects = <<>>
    /\ dsCheckedOut = {}
    /\ dsPolicies = {}


(***************************************************************************)
(* Directory server core: gossip handling                                  *)
(***************************************************************************)
MaxBody == 2          \* longest gossip message body (policies per batch)
MaxDeliveries == 2    \* how often the network delivers one gossip message

GossipIds == {"g1", "g2"}
MSG_TYPE_PROBE == "MSG_TYPE_PROBE"
MSG_TYPE_POLICY_STORE_UPDATE == "MSG_TYPE_POLICY_STORE_UPDATE"
GossipTypes == {MSG_TYPE_PROBE, MSG_TYPE_POLICY_STORE_UPDATE, "MSG_TYPE_OTHER"}

\* m.GetPolicy(): a policy for a dataset, or nil
NilPolicy == [isNil |-> TRUE, datasetIdentifier |-> ""]
Policies == {[isNil |-> FALSE, datasetIdentifier |-> d] : d \in DatasetIds}
PolicyArgs == Policies \cup {NilPolicy}

\* a repeated protobuf field with no element decodes to a nil slice
GossipBodies == UNION {[1..n -> PolicyArgs] : n \in 0..MaxBody}
GossipMessages == [id : GossipIds, body : GossipBodies]
GossipEnvelopes == [type : GossipTypes,
                    gossipMessage : {Nil} \cup {Some(g) : g \in GossipMessages}]

\* The integrity check: its first statement returns nil, whatever the signature.
verifyMessageSignature(sigOk) == "nil"

\* The observation ledger (its implementation is behind the gossipObserver interface).
InsertObservedGossip(obs, g) == IF g = Nil THEN obs ELSE obs \cup {g[1].id}
GossipIsObserved(obs, g) == g # Nil /\ g[1].id \in obs

\* The checkout manager behind the datasetCheckoutManager interface.
DatasetIsCheckedOut(checkedOut, datasetId) == datasetId \in checkedOut

\* An applyPolicy that publishes the policy whether or not the dataset is checked out.
applyPolicyAlwaysPublish(newPolicy, checkedOut) ==
    IF newPolicy.isNil THEN [err |-> "err", effect |-> "none"]
    ELSE [err |-> "nil", effect |-> "published"]

\* applyPolicy: an error for a nil policy; the checked-out branch is empty
\* (PublishPolicy is commented out), so no branch has an effect.
applyPolicy(newPolicy, checkedOut) ==
    IF newPolicy.isNil THEN [err |-> "err", effect |-> "none"]
    ELSE IF DatasetIsCheckedOut(checkedOut, newPolicy.datasetIdentifier)
    THEN [err |-> "nil", effect |-> "none"]
    ELSE [err |-> "nil", effect |-> "none"]

ApplyCall(newPolicy, checkedOut, r) ==
    [arg |-> newPolicy,
     checkedOut |-> (~newPolicy.isNil
                        /\ DatasetIsCheckedOut(checkedOut, newPolicy.datasetIdentifier)),
     err |-> r.err, effect |-> r.effect]

\* A loop that gives up at the first entry applyPolicy refuses.
RECURSIVE policyLoopStopOnError(_, _)
policyLoopStopOnError(body, checkedOut) ==
    IF body = <<>> THEN <<>>
    ELSE LET r == applyPolicy(Head(body), checkedOut)
         IN  IF r.err # "nil" THEN <<ApplyCall(Head(body), checkedOut, r)>>
             ELSE <<ApplyCall(Head(body), checkedOut, r)>>
                      \o policyLoopStopOnError(Tail(body), checkedOut)

\* The loop of processPolicyBatch: the applyPolicy invocations it makes.
\* An error of applyPolicy is logged and the loop goes on.
RECURSIVE policyLoop(_, _)
policyLoop(body, checkedOut) ==
    IF body = <<>> THEN <<>>
    ELSE LET r == applyPolicy(Head(body), checkedOut)
         IN  <<ApplyCall(Head(body), checkedOut, r)>> \o policyLoop(Tail(body), checkedOut)

\* A batch handler that takes a missing gossip message or body for an empty batch.
processPolicyBatchLenient(msg, checkedOut) ==
    IF msg.gossipMessage = Nil THEN [ret |-> "nil", calls |-> <<>>]
    ELSE [ret |-> "nil", calls |-> policyLoop(msg.gossipMessage[1].body, checkedOut)]

processPolicyBatch(msg, checkedOut) ==
    IF msg.gossipMessage = Nil THEN [ret |-> "err", calls |-> <<>>]
    ELSE IF msg.gossipMessage[1].body = <<>> THEN [ret |-> "err", calls |-> <<>>]
    ELSE [ret |-> "nil", calls |-> policyLoop(msg.gossipMessage[1].body, checkedOut)]

\* A handler that notes only policy store updates in the ledger.
gossipHandleObserveUpdatesOnly(msg, sigOk, obs, checkedOut) ==
    LET pb == processPolicyBatch(msg, checkedOut)
    IN  IF msg.type = MSG_TYPE_POLICY_STORE_UPDATE
        THEN [obs |-> InsertObservedGossip(obs, msg.gossipMessage),
              ret |-> pb.ret, calls |-> pb.calls]
        ELSE [obs |-> obs, ret |-> "nil", calls |-> <<>>]

\* A handler that processes the body of a probe as a policy batch.
gossipHandleProbeApplies(msg, sigOk, obs, checkedOut) ==
    LET o  == InsertObservedGossip(obs, msg.gossipMessage)
        pb == processPolicyBatch(msg, checkedOut)
    IN  IF msg.type \in {MSG_TYPE_POLICY_STORE_UPDATE, MSG_TYPE_PROBE}
        THEN [obs |-> o, ret |-> pb.ret, calls |-> pb.calls]
        ELSE [obs |-> o, ret |-> "nil", calls |-> <<>>]

\* gossipMessageHandler on a decoded envelope: the ledger afterwards, the
\* result and the applyPolicy calls made.
gossipHandle(msg, sigOk, obs, checkedOut) ==
    LET v  == verifyMessageSignature(sigOk)   \* a failure is only logged
        o  == InsertObservedGossip(obs, msg.gossipMessage)
        pb == processPolicyBatch(msg, checkedOut)
    IN  IF msg.type = MSG_TYPE_POLICY_STORE_UPDATE
        THEN [obs |-> o, ret |-> pb.ret, calls |-> pb.calls]
        ELSE [obs |-> o, ret |-> "nil", calls |-> <<>>]

\* The policy store disseminates a new gossip envelope.
GossipPublish ==
    /\ \E e \in GossipEnvelopes : gossipMsg' = e
    /\ deliveries' = 0
    /\ applyLog' = <<>>
    /\ applyEffects' = <<>>
    /\ lastGossip' = NoDelivery
    /\ UNCHANGED <<gossipObs, dsCheckedOut, dsPolicies,
                   msgVars, memVars, checkoutVars, lookupVars, rollbackVars, concVars, muxVars>>

\* The transport hands the envelope to the handler (at-least-once delivery).
gossipMessageHandler ==
    /\ gossipMsg # NoGossipMsg
    /\ deliveries < MaxDeliveries
    /\ \E sigOk \in BOOLEAN :
         LET r == gossipHandle(gossipMsg, sigOk, gossipObs, dsCheckedOut)
         IN  /\ gossipObs' = r.obs
             /\ applyLog' = applyLog \o [i \in 1..Len(r.calls) |-> r.calls[i].arg]
             /\ applyEffects' = applyEffects \o
                   [i \in 1..Len(r.calls) |->
                      [checkedOut |-> r.calls[i].checkedOut, err |-> r.calls[i].err,
                       effect |-> r.calls[i].effect]]
             /\ dsPolicies' = dsPolicies \cup
                   {r.calls[i].arg.datasetIdentifier :
                      i \in {j \in 1..Len(r.calls) : r.calls[j].effect # "none"}}
             /\ lastGossip' = [delivered |-> TRUE, sigOk |-> sigOk,
                               ret |-> r.ret, calls |-> Len(r.calls)]
    /\ deliveries' = deliveries + 1
    /\ UNCHANGED <<gossipMsg, dsCheckedOut,
                   msgVars, memVars, checkoutVars, lookupVars, rollbackVars, concVars, muxVars>>

\* Bytes that do not unmarshal: the handler returns the error at once.
gossipMessageHandlerGarbled ==
    /\ lastGossip' = [delivered |-> FALSE, sigOk |-> TRUE, ret |-> "err", calls |-> 0]
    /\ lastGossip' # lastGossip
    /\ UNCHANGED <<gossipMsg, deliveries, gossipObs, applyLog, applyEffects,
                   dsCheckedOut, dsPolicies,
                   msgVars, memVars, checkoutVars, lookupVars, rollbackVars, concVars, muxVars>>

\* A client checks a dataset out at the directory server (CheckoutDataset of
\* the checkout manager); there is no check-in.
DirectoryCheckout ==
    /\ \E d \in DatasetIds \ dsCheckedOut : dsCheckedOut' = dsCheckedOut \cup {d}
    /\ UNCHANGED <<gossipMsg, deliveries, gossipObs, applyLog, lastGossip, applyEffects,
                   dsPolicies, msgVars, memVars, checkoutVars, lookupVars, rollbackVars, concVars, muxVars>>

GossipNext ==
    \/ GossipPublish \/ gossipMessageHandler \/ gossipMessageHandlerGarbled
    \/ DirectoryCheckout

(***************************************************************************)
(* Directory server core: direct messages                                  *)
(***************************************************************************)
MSG_TYPE_ADD_DATASET_IDENTIFIER == "MSG_TYPE_ADD_DATASET_IDENTIFIER"
MSG_SYNCHRONIZE_DATASET_IDENTIFIERS == "MSG_SYNCHRONIZE_DATASET_IDENTIFIERS"
MSG_TYPE_OK == "MSG_TYPE_OK"
DirectTypes == {MSG_TYPE_ADD_DATASET_IDENTIFIER, MSG_SYNCHRONIZE_DATASET_IDENTIFIERS,
                "MSG_TYPE_GET_DATASET"}

ErrDatasetLookupInsert == "ErrDatasetLookupInsert"
ErrUnknownMessageType == "ErrUnknownMessageType"

\* msg.GetSender(): a node, or nil (GetName() of nil is "")
NilSender == [isNil |-> TRUE, name |-> ""]
Senders == {NilSender} \cup {[isNil |-> FALSE, name |-> n] : n \in NodeNames}

\* stringSlice is the set of identifiers of the repeated field; an empty
\* repeated field decodes to a nil slice. sigOk: whether the signature
\* verifies against the sender's identity.
DirectMessages == [type : DirectTypes, sender : Senders, stringValue : DatasetIds,
                   stringSlice : SUBSET DatasetIds, sigOk : BOOLEAN]
NoDirectMsg == [type |-> "none", sender |-> NilSender, stringValue |-> "",
                stringSlice |-> {}, sigOk |-> TRUE]
NoMsgRet == [resp |-> Nil, err |-> "nil", storeOk |-> TRUE]
EmptyLookup == [d \in DatasetIds |-> NoOwner]

MsgIdle ==
    /\ dsLookup = EmptyLookup
    /\ lookupPre = EmptyLookup
    /\ lastMsg = NoDirectMsg
    /\ msgRet = NoMsgRet

\* The lookup service behind the datasetLookupService interface: an upsert of
\* dataset -> node name; an empty node name or a failing store is an error.
InsertDatasetLookupEntry(lookup, datasetId, nodeName, storeOk) ==
    IF nodeName = "" \/ ~storeOk
    THEN [err |-> "err", lookup |-> lookup]
    ELSE [err |-> "nil", lookup |-> [lookup EXCEPT ![datasetId] = nodeName]]

\* A reconciliation that drops every recorded identifier the sender did not
\* list, whoever owns it (the naive overwrite).
resolveDeltasOverwrite(newIdentifiers, node, lookup) ==
    IF newIdentifiers = {} THEN [err |-> "newIdentifiers is nil", lookup |-> lookup]
    ELSE IF node.isNil THEN [err |-> "node is nil", lookup |-> lookup]
    ELSE [err |-> "nil",
          lookup |-> [d \in DatasetIds |->
                        IF d \in newIdentifiers THEN lookup[d] ELSE NoOwner]]

\* The reconciliation is commented out: after the two nil checks nothing is done.
resolveDatasetIdentifiersDeltas(newIdentifiers, node, lookup) ==
    IF newIdentifiers = {} THEN [err |-> "newIdentifiers is nil", lookup |-> lookup]
    ELSE IF node.isNil THEN [err |-> "node is nil", lookup |-> lookup]
    ELSE [err |-> "nil", lookup |-> lookup]

\* The acknowledgement: a bare {Type: MSG_TYPE_OK}, marshalled without a signature.
OkResponse == Some([type |-> MSG_TYPE_OK, signed |-> FALSE])

\* A handler that acknowledges a message of a type it does not know.
messageHandleAckUnknown(msg, lookup, storeOk) ==
    IF msg.type = MSG_TYPE_ADD_DATASET_IDENTIFIER
    THEN LET r == InsertDatasetLookupEntry(lookup, msg.stringValue, msg.sender.name, storeOk)
         IN  IF r.err # "nil"
             THEN [lookup |-> r.lookup, resp |-> Nil, err |-> ErrDatasetLookupInsert]
             ELSE [lookup |-> r.lookup, resp |-> OkResponse, err |-> "nil"]
    ELSE IF msg.type = MSG_SYNCHRONIZE_DATASET_IDENTIFIERS
    THEN LET r == resolveDatasetIdentifiersDeltas(msg.stringSlice, msg.sender, lookup)
         IN  IF r.err # "nil"
             THEN [lookup |-> r.lookup, resp |-> Nil, err |-> r.err]
             ELSE [lookup |-> r.lookup, resp |-> OkResponse, err |-> "nil"]
    ELSE [lookup |-> lookup, resp |-> OkResponse, err |-> "nil"]

\* A handler that acknowledges an add-dataset-identifier message whose lookup
\* insert failed.
messageHandleSwallowInsertError(msg, lookup, storeOk) ==
    IF msg.type = MSG_TYPE_ADD_DATASET_IDENTIFIER
    THEN LET r == InsertDatasetLookupEntry(lookup, msg.stringValue, msg.sender.name, storeOk)
         IN  [lookup |-> r.lookup, resp |-> OkResponse, err |-> "nil"]
    ELSE IF msg.type = MSG_SYNCHRONIZE_DATASET_IDENTIFIERS
    THEN LET r == resolveDatasetIdentifiersDeltas(msg.stringSlice, msg.sender, lookup)
         IN  IF r.err # "nil"
             THEN [lookup |-> r.lookup, resp |-> Nil, err |-> r.err]
             ELSE [lookup |-> r.lookup, resp |-> OkResponse, err |-> "nil"]
    ELSE [lookup |-> lookup, resp |-> Nil, err |-> ErrUnknownMessageType]

\* messageHandler on a decoded message: lookup table afterwards, response, error.
messageHandle(msg, lookup, storeOk) ==
    LET v == verifyMessageSignature(msg.sigOk)
    IN
    IF v # "nil" THEN [lookup |-> lookup, resp |-> Nil, err |-> v]
    ELSE IF msg.type = MSG_TYPE_ADD_DATASET_IDENTIFIER
    THEN LET r == InsertDatasetLookupEntry(lookup, msg.stringValue, msg.sender.name, storeOk)
         IN  IF r.err # "nil"
             THEN [lookup |-> r.lookup, resp |-> Nil, err |-> ErrDatasetLookupInsert]
             ELSE [lookup |-> r.lookup, resp |-> OkResponse, err |-> "nil"]
    ELSE IF msg.type = MSG_SYNCHRONIZE_DATASET_IDENTIFIERS
    THEN LET r == resolveDatasetIdentifiersDeltas(msg.stringSlice, msg.sender, lookup)
         IN  IF r.err # "nil"
             THEN [lookup |-> r.lookup, resp |-> Nil, err |-> r.err]
             ELSE [lookup |-> r.lookup, resp |-> OkResponse, err |-> "nil"]
    ELSE [lookup |-> lookup, resp |-> Nil, err |-> ErrUnknownMessageType]

messageHandler ==
    /\ \E msg \in DirectMessages, storeOk \in BOOLEAN :
         LET r == messageHandle(msg, dsLookup, storeOk)
         IN  /\ dsLookup' = r.lookup
             /\ lookupPre' = dsLookup
             /\ lastMsg' = msg
             /\ msgRet' = [resp |-> r.resp, err |-> r.err, storeOk |-> storeOk]
    /\ UNCHANGED <<gossipVars, memVars, checkoutVars, lookupVars, rollbackVars, concVars, muxVars>>

\* Bytes that do not unmarshal: an (empty) error and no response.
messageHandlerGarbled ==
    /\ lastMsg' = NoDirectMsg
    /\ lookupPre' = dsLookup
    /\ msgRet' = [resp |-> Nil, err |-> "unmarshal", storeOk |-> TRUE]
    /\ UNCHANGED <<dsLookup, gossipVars, memVars, checkoutVars, lookupVars, rollbackVars, concVars, muxVars>>

MsgNext == messageHandler \/ messageHandlerGarbled

(***************************************************************************)
(* Handshake and the membership database                                   *)
(***************************************************************************)
MaxHandshakes == 2    \* successful handshakes counted per node name

\* A timestamppb value: whole seconds and nanoseconds
BootTimes == [seconds : {100, 101}, nanos : {0, 500}]
ZeroTime == [seconds |-> 0, nanos |-> 0]

\* pb.Node as Handshake receives it; getters of a nil node give zero values
NilNode == [isNil |-> TRUE, name |-> "", ifritAddress |-> "", id |-> "",
            httpsAddress |-> "", port |-> 0, bootTime |-> ZeroTime]
PbNodes == [isNil : {FALSE}, name : NodeNames \cup {""},
            ifritAddress : {"10.0.0.1:8000", "10.0.0.2:8000"}, id : {"pk"},
            httpsAddress : {"h1:443", "h2:443"}, port : {8091},
            bootTime : BootTimes]

\* time.Time.Format(time.RFC1123Z): a rendering with one-second resolution
FormatRFC1123Z(t) == [layout |-> "RFC1123Z", seconds |-> t.seconds]
\* time.Parse(time.RFC1123Z, s)
ParseRFC1123Z(s) == [seconds |-> s.seconds, nanos |-> 0]

NodeRow(nodeId, node) ==
    [node_name |-> nodeId, ip_address |-> node.ifritAddress, public_id |-> node.id,
     https_address |-> node.httpsAddress, port |-> node.port,
     boottime |-> FormatRFC1123Z(node.bootTime)]

NoHandshake == [count |-> 0, node |-> NilNode, changed |-> FALSE]
\* changedOnError: the call returned an error and yet altered the node table
NoHsRet == [called |-> FALSE, err |-> "nil", resp |-> Nil, nodeNil |-> FALSE,
            nodeName |-> "", changedOnError |-> FALSE]
NoRemove == [called |-> FALSE, nodeId |-> "", storeOk |-> TRUE, err |-> "nil", pre |-> {}]

MemberIdle ==
    /\ storageNodeTable = {}
    /\ lastHandshake = [n \in NodeNames |-> NoHandshake]
    /\ hsRet = NoHsRet
    /\ lastRemove = NoRemove

\* An insert that keeps the row already there (ON CONFLICT DO NOTHING).
dbInsertNetworkNodeKeepOld(table, nodeId, node, storeOk) ==
    IF nodeId = "" THEN [err |-> "errNoNodeId", table |-> table]
    ELSE IF node.isNil THEN [err |-> "errNilNode", table |-> table]
    ELSE IF ~storeOk THEN [err |-> "exec", table |-> table]
    ELSE IF \E r \in table : r.node_name = nodeId
    THEN [err |-> "nil", table |-> table]
    ELSE [err |-> "nil", table |-> table \cup {NodeRow(nodeId, node)}]

\* INSERT ... ON CONFLICT (node_name) DO UPDATE SET ... WHERE node_name = $1
dbInsertNetworkNode(table, nodeId, node, storeOk) ==
    IF nodeId = "" THEN [err |-> "errNoNodeId", table |-> table]
    ELSE IF node.isNil THEN [err |-> "errNilNode", table |-> table]
    ELSE IF ~storeOk THEN [err |-> "exec", table |-> table]
    ELSE IF \E r \in table : r.node_name = nodeId
    THEN [err |-> "nil",
          table |-> {IF r.node_name = nodeId THEN NodeRow(nodeId, node) ELSE r : r \in table}]
    ELSE [err |-> "nil", table |-> table \cup {NodeRow(nodeId, node)}]

\* SELECT * ... WHERE node_name = $1, decoded into a pb.Node (nil when no row)
dbSelectNetworkNode(table, nodeId) ==
    IF \E r \in table : r.node_name = nodeId
    THEN LET r == CHOOSE x \in table : x.node_name = nodeId
         IN  [isNil |-> FALSE, name |-> r.node_name, ifritAddress |-> r.ip_address,
              id |-> r.public_id, httpsAddress |-> r.https_address, port |-> r.port,
              bootTime |-> ParseRFC1123Z(r.boottime)]
    ELSE NilNode

\* The membership manager behind the membershipManager interface hands the
\* node to its database client.
AddNetworkNode(table, nodeId, node, storeOk) ==
    dbInsertNetworkNode(table, nodeId, node, storeOk)

HandshakeResponse == Some([ip |-> "hostname:port", id |-> "ifritId"])

Handshake(table, node, storeOk) ==
    IF node.isNil THEN [err |-> "InvalidArgument", resp |-> Nil, table |-> table]
    ELSE LET r == AddNetworkNode(table, node.name, node, storeOk)
         IN  IF r.err # "nil"
             THEN [err |-> r.err, resp |-> Nil, table |-> r.table]
             ELSE [err |-> "nil", resp |-> HandshakeResponse, table |-> r.table]

HandshakeRPC ==
    /\ \E node \in PbNodes \cup {NilNode}, storeOk \in BOOLEAN :
         LET r == Handshake(storageNodeTable, node, storeOk)
         IN  /\ r.err = "nil" => lastHandshake[node.name].count < MaxHandshakes
             /\ storageNodeTable' = r.table
             /\ hsRet' = [called |-> TRUE, err |-> r.err, resp |-> r.resp,
                          nodeNil |-> node.isNil, nodeName |-> node.name,
                          changedOnError |->
                              (r.err # "nil" /\ r.table # storageNodeTable)]
             /\ lastHandshake' =
                  IF r.err = "nil"
                  THEN [lastHandshake EXCEPT ![node.name] =
                           [count |-> @.count + 1, node |-> node,
                            changed |-> @.count > 0 /\ @.node # node]]
                  ELSE lastHandshake
    /\ UNCHANGED <<lastRemove, gossipVars, msgVars, checkoutVars, lookupVars, rollbackVars, concVars, muxVars>>

MemberNext == HandshakeRPC

\* A delete that does not look at the number of rows affected.
dbDeleteNetworkNodeIgnoreRows(table, nodeId, storeOk) ==
    IF nodeId = "" THEN [err |-> "Node id is empty", table |-> table]
    ELSE IF ~storeOk THEN [err |-> "exec", table |-> table]
    ELSE [err |-> "nil", table |-> {r \in table : r.node_name # nodeId}]

\* DELETE FROM ... WHERE node_name = $1; anything but one row affected is an error
dbDeleteNetworkNode(table, nodeId, storeOk) ==
    IF nodeId = "" THEN [err |-> "Node id is empty", table |-> table]
    ELSE IF ~storeOk THEN [err |-> "exec", table |-> table]
    ELSE IF Cardinality({r \in table : r.node_name = nodeId}) # 1
    THEN [err |-> "Could not delete node", table |-> {r \in table : r.node_name # nodeId}]
    ELSE [err |-> "nil", table |-> {r \in table : r.node_name # nodeId}]

\* The membership manager deletes a node from its table.
DeleteNetworkNode ==
    /\ \E nodeId \in NodeNames \cup {""}, storeOk \in BOOLEAN :
         LET r == dbDeleteNetworkNode(storageNodeTable, nodeId, storeOk)
         IN  /\ storageNodeTable' = r.table
             /\ lastRemove' = [called |-> TRUE, nodeId |-> nodeId, storeOk |-> storeOk,
                               err |-> r.err, pre |-> storageNodeTable]
             /\ lastHandshake' =
                  IF r.err = "nil" THEN [lastHandshake EXCEPT ![nodeId] = NoHandshake]
                  ELSE lastHandshake
    /\ UNCHANGED <<hsRet, gossipVars, msgVars, checkoutVars, lookupVars, rollbackVars, concVars, muxVars>>

MemberRemoveNext == DeleteNetworkNode

(***************************************************************************)
(* Storage node: GET /dataset/data/{id} (getDataset)                       *)
(***************************************************************************)
MaxRequests == 2      \* concurrent HTTP requests

Requests == 1..MaxRequests

\* The datasets a request may name:
\*   d1  indexed, available, with a dataset URL
\*   d2  indexed, available, its dataset URL empty
\*   d3  indexed, its policy makes it unavailable
\*   d4  not indexed
RequestDatasets == {"d1", "d2", "d3", "d4"}
dbDatasetExists(datasetId) == datasetId \in {"d1", "d2", "d3"}
getDatasetMap == [d \in {"d1", "d2", "d3"} |->
                     [datasetURL |-> IF d = "d2" THEN "" ELSE "https://repo/data"]]
dbDatasetIsAvailable(datasetId) == datasetId \in {"d1", "d2"}

\* The Authorization header as strings.Split(header, " ") sees it
AuthHeaders == {<<"">>, <<"Bearer", "tokenX">>, <<"Bearer", "tokenY">>}
\* What the remote repository answers to the node's GET
RemoteOutcomes == {"200", "error", "500"}

NoRequest == [datasetId |-> "", authorization |-> <<"">>]

CheckoutIdle ==
    /\ allowMultipleCheckouts = FALSE
    /\ datasetCheckoutTable = <<>>
    /\ pc = [r \in Requests |-> "idle"]
    /\ req = [r \in Requests |-> NoRequest]
    /\ resp = [r \in Requests |-> "none"]

\* Any checkout record of the dataset (the query is given the dataset only).
dbDatasetIsCheckedOutByClient(table, datasetId) ==
    \E i \in DOMAIN table : table[i].dataset = datasetId

\* Inserts a checkout record, unless the database fails.
dbCheckoutDataset(table, token, datasetId, storeOk) ==
    IF storeOk
    THEN [err |-> "nil", table |-> Append(table, [client |-> token, dataset |-> datasetId])]
    ELSE [err |-> "err", table |-> table]

getBearerToken(authHeaderContent) ==
    IF Len(authHeaderContent) # 2
    THEN [err |-> "Token not provided or malformed", token |-> ""]
    ELSE [err |-> "nil", token |-> authHeaderContent[2]]

\* A single-checkout test that ignores the configuration flag.
checkoutRejectedAlways(allow, table, datasetId) ==
    dbDatasetIsCheckedOutByClient(table, datasetId)

\* The single-checkout test of getDataset
checkoutRejected(allow, table, datasetId) ==
    ~allow /\ dbDatasetIsCheckedOutByClient(table, datasetId)

\* getDataset up to the single-checkout test: the response written, or "pass"
authorizeRequest(allow, table, datasetId) ==
    IF ~dbDatasetExists(datasetId) THEN "404 not indexed"
    ELSE IF datasetId \notin DOMAIN getDatasetMap THEN "400 dataset is nil"
    ELSE IF ~dbDatasetIsAvailable(datasetId) THEN "401 no permission"
    ELSE IF checkoutRejected(allow, table, datasetId) THEN "401 already checked out"
    ELSE "pass"

\* A pipeline that inserts the checkout record before it looks at the token.
checkoutAndFetchInsertFirst(table, r, storeOk, remote) ==
    LET t == getBearerToken(r.authorization)
        c == dbCheckoutDataset(table, t.token, r.datasetId, storeOk)
    IN  IF c.err # "nil" THEN [table |-> c.table, resp |-> "500 checkout"]
        ELSE IF t.err # "nil" THEN [table |-> c.table, resp |-> "400 token"]
        ELSE IF getDatasetMap[r.datasetId].datasetURL = ""
             THEN [table |-> c.table, resp |-> "400 no dataset URL"]
        ELSE IF remote = "error" THEN [table |-> c.table, resp |-> "400 fetch"]
        ELSE IF remote # "200" THEN [table |-> c.table, resp |-> "500 remote status"]
        ELSE [table |-> c.table, resp |-> "200"]

\* A pipeline that keeps one record per dataset: the new checkout record
\* takes the place of the records the dataset had.
checkoutAndFetchReplace(table, r, storeOk, remote) ==
    LET t == getBearerToken(r.authorization)
        Other(rec) == rec.dataset # r.datasetId
        c == dbCheckoutDataset(SelectSeq(table, Other), t.token, r.datasetId, storeOk)
    IN  IF t.err # "nil" THEN [table |-> table, resp |-> "400 token"]
        ELSE IF c.err # "nil" THEN [table |-> table, resp |-> "500 checkout"]
        ELSE IF getDatasetMap[r.datasetId].datasetURL = ""
             THEN [table |-> c.table, resp |-> "400 no dataset URL"]
        ELSE IF remote = "error" THEN [table |-> c.table, resp |-> "400 fetch"]
        ELSE IF remote # "200" THEN [table |-> c.table, resp |-> "500 remote status"]
        ELSE [table |-> c.table, resp |-> "200"]

\* getDataset from the bearer token on: the checkout insert, then the fetch
\* from the remote repository. No step undoes the insert.
checkoutAndFetch(table, r, storeOk, remote) ==
    LET t == getBearerToken(r.authorization)
        c == dbCheckoutDataset(table, t.token, r.datasetId, storeOk)
    IN  IF t.err # "nil" THEN [table |-> table, resp |-> "400 token"]
        ELSE IF c.err # "nil" THEN [table |-> c.table, resp |-> "500 checkout"]
        ELSE IF getDatasetMap[r.datasetId].datasetURL = ""
             THEN [table |-> c.table, resp |-> "400 no dataset URL"]
        ELSE IF remote = "error" THEN [table |-> c.table, resp |-> "400 fetch"]
        ELSE IF remote # "200" THEN [table |-> c.table, resp |-> "500 remote status"]
        ELSE [table |-> c.table, resp |-> "200"]

\* Responses written after the checkout record was inserted
PostInsertResponses == {"400 no dataset URL", "400 fetch", "500 remote status", "200"}

\* A request arrives and runs up to the single-checkout test (reads only).
GetDatasetAuthorize(r) ==
    /\ pc[r] = "idle"
    /\ \E d \in RequestDatasets, h \in AuthHeaders :
         LET a == authorizeRequest(allowMultipleCheckouts, datasetCheckoutTable, d)
         IN  /\ req' = [req EXCEPT ![r] = [datasetId |-> d, authorization |-> h]]
             /\ pc' = [pc EXCEPT ![r] = IF a = "pass" THEN "checkout" ELSE "done"]
             /\ resp' = [resp EXCEPT ![r] = IF a = "pass" THEN "none" ELSE a]
    /\ UNCHANGED <<allowMultipleCheckouts, datasetCheckoutTable,
                   gossipVars, msgVars, memVars, lookupVars, rollbackVars, concVars, muxVars>>

\* The request goes on: token, checkout insert, fetch, response.
GetDatasetCheckout(r) ==
    /\ pc[r] = "checkout"
    /\ \E storeOk \in BOOLEAN, remote \in RemoteOutcomes :
         LET c == checkoutAndFetch(datasetCheckoutTable, req[r], storeOk, remote)
         IN  /\ datasetCheckoutTable' = c.table
             /\ resp' = [resp EXCEPT ![r] = c.resp]
    /\ pc' = [pc EXCEPT ![r] = "done"]
    /\ UNCHANGED <<allowMultipleCheckouts, req, gossipVars, msgVars, memVars, lookupVars, rollbackVars, concVars, muxVars>>

CheckoutNext == \E r \in Requests : GetDatasetAuthorize(r) \/ GetDatasetCheckout(r)

(***************************************************************************)
(* Dataset lookup service: Redis cache in front of the PostgreSQL table    *)
(***************************************************************************)
\* proto.Marshal / proto.Unmarshal of a pb.Node (a node is named by its name)
Marshal(node) == <<"pb", node>>
Unmarshal(bytes) == bytes[2]

EmptyCache == [k \in DatasetIds |-> Nil]
EmptyStore == [k \in DatasetIds |-> Nil]
NoOp == [op |-> "none", key |-> "", arg |-> "", cacheOk |-> TRUE, storeOk |-> TRUE,
         err |-> "nil", exists |-> FALSE, node |-> Nil, storeAttempted |-> FALSE,
         cacheWriteOk |-> TRUE, inCache |-> FALSE, inStore |-> FALSE, ids |-> {},
         prev |-> Nil]

LookupIdle ==
    /\ redisConfigured = FALSE
    /\ cache = EmptyCache
    /\ store = EmptyStore
    /\ lastOp = NoOp

\* The database client of the lookup service (upsert, select, exists, delete)
dbInsertDatasetNode(s, datasetId, node, storeOk) ==
    IF storeOk THEN [err |-> "nil", store |-> [s EXCEPT ![datasetId] = Some(node)]]
    ELSE [err |-> "err", store |-> s]
dbSelectDatasetNode(s, datasetId) == s[datasetId]
dbDatasetNodeExists(s, datasetId) == s[datasetId] # Nil
dbRemoveDatasetNode(s, datasetId, storeOk) ==
    IF ~storeOk THEN [err |-> "err", store |-> s]
    ELSE IF s[datasetId] = Nil THEN [err |-> "not found", store |-> s]
    ELSE [err |-> "nil", store |-> [s EXCEPT ![datasetId] = Nil]]
dbSelectDatasetIdentifiers(s) == {k \in DatasetIds : s[k] # Nil}

\* MGET key, then Unmarshal; a missing key is an error too
cacheDatasetNode(c, datasetId, cacheOk) ==
    IF ~cacheOk THEN [node |-> Nil, err |-> "err"]
    ELSE IF c[datasetId] # Nil
    THEN [node |-> Some(Unmarshal(c[datasetId][1])), err |-> "nil"]
    ELSE [node |-> Nil, err |-> "Node was not found in cache"]

\* SET key Marshal(node)
cacheInsertDatasetNode(c, datasetId, node, cacheOk) ==
    IF cacheOk THEN [err |-> "nil", cache |-> [c EXCEPT ![datasetId] = Some(Marshal(node))]]
    ELSE [err |-> "err", cache |-> c]

\* EXISTS key
cacheDatasetNodeExists(c, datasetId, cacheOk) ==
    IF ~cacheOk THEN [exists |-> FALSE, err |-> "err"]
    ELSE [exists |-> c[datasetId] # Nil, err |-> "nil"]

\* DEL key: an error when the key was not there
cacheRemoveDatasetNode(c, datasetId, cacheOk) ==
    IF ~cacheOk THEN [err |-> "err", cache |-> c]
    ELSE IF c[datasetId] = Nil THEN [err |-> "not found", cache |-> c]
    ELSE [err |-> "nil", cache |-> [c EXCEPT ![datasetId] = Nil]]

\* SCAN 0 "*": the keys of the cache, in a slice made with make([]string, 0),
\* which is not nil even when it has no element; nil only with an error.
cacheDatasetIdentifiers(c, cacheOk) ==
    IF cacheOk THEN [ids |-> Some({k \in DatasetIds : c[k] # Nil}), err |-> "nil"]
    ELSE [ids |-> Nil, err |-> "err"]

\* DatasetNode: the cache first, then the database; nothing is written back.
DatasetNode(c, s, datasetId, configured, cacheOk) ==
    LET r == cacheDatasetNode(c, datasetId, cacheOk)
    IN  IF configured /\ r.node # Nil /\ r.err = "nil" THEN r.node
        ELSE dbSelectDatasetNode(s, datasetId)

\* An insert that gives up when the cache write fails.
InsertDatasetNodeCacheFatal(c, s, datasetId, node, configured, cacheOk, storeOk) ==
    LET cw == IF configured THEN cacheInsertDatasetNode(c, datasetId, node, cacheOk)
              ELSE [err |-> "nil", cache |-> c]
        sw == dbInsertDatasetNode(s, datasetId, node, storeOk)
    IN  IF cw.err # "nil"
        THEN [cache |-> cw.cache, store |-> s, err |-> cw.err, storeAttempted |-> FALSE]
        ELSE [cache |-> cw.cache, store |-> sw.store, err |-> sw.err, storeAttempted |-> TRUE]

\* InsertDatasetNode: the cache write (an error is only logged), then the
\* database write, whose error is returned.
InsertDatasetNode(c, s, datasetId, node, configured, cacheOk, storeOk) ==
    LET cw == IF configured THEN cacheInsertDatasetNode(c, datasetId, node, cacheOk)
              ELSE [err |-> "nil", cache |-> c]
        sw == dbInsertDatasetNode(s, datasetId, node, storeOk)
    IN  [cache |-> cw.cache, store |-> sw.store, err |-> sw.err, storeAttempted |-> TRUE]

\* An existence test that answers from the database and never repairs the cache.
DatasetNodeExistsNoRepair(c, s, datasetId, configured, cacheReadOk, cacheWriteOk) ==
    IF datasetId = "" THEN [exists |-> FALSE, cache |-> c]
    ELSE LET r == cacheDatasetNodeExists(c, datasetId, cacheReadOk)
         IN  IF configured /\ r.exists /\ r.err = "nil" THEN [exists |-> TRUE, cache |-> c]
             ELSE [exists |-> dbDatasetNodeExists(s, datasetId), cache |-> c]

\* DatasetNodeExists: cache hit, else the database, repairing the cache on a hit there.
DatasetNodeExists(c, s, datasetId, configured, cacheReadOk, cacheWriteOk) ==
    IF datasetId = "" THEN [exists |-> FALSE, cache |-> c]
    ELSE LET r == cacheDatasetNodeExists(c, datasetId, cacheReadOk)
         IN  IF configured /\ r.exists /\ r.err = "nil" THEN [exists |-> TRUE, cache |-> c]
             ELSE LET exists == dbDatasetNodeExists(s, datasetId)
                      node == dbSelectDatasetNode(s, datasetId)
                  IN  IF exists /\ configured /\ node # Nil /\ cacheWriteOk
                      THEN [exists |-> exists,
                            cache |-> [c EXCEPT ![datasetId] = Some(Marshal(node[1]))]]
                      ELSE [exists |-> exists, cache |-> c]

\* DatasetIdentifiers: the keys of the cache whenever the scan gave a non-nil
\* slice without an error, else the identifiers of the database.
DatasetIdentifiers(c, s, configured, cacheOk) ==
    LET r == cacheDatasetIdentifiers(c, cacheOk)
    IN  IF configured /\ r.ids # Nil /\ r.err = "nil" THEN r.ids[1]
        ELSE dbSelectDatasetIdentifiers(s)

\* RemoveDatasetNode: the cache delete (an error is only logged), then the database delete.
RemoveDatasetNode(c, s, datasetId, configured, cacheOk, storeOk) ==
    LET cr == IF configured THEN cacheRemoveDatasetNode(c, datasetId, cacheOk)
              ELSE [err |-> "nil", cache |-> c]
        sr == dbRemoveDatasetNode(s, datasetId, storeOk)
    IN  [cache |-> cr.cache, store |-> sr.store, err |-> sr.err]

\* Outcomes of the Redis calls: without a Redis client there is no call to fail
CacheOutcomes == IF redisConfigured THEN BOOLEAN ELSE {TRUE}

Insert ==
    /\ \E k \in DatasetIds, n \in NodeNames, cacheOk \in CacheOutcomes, storeOk \in BOOLEAN :
         LET r == InsertDatasetNode(cache, store, k, n, redisConfigured, cacheOk, storeOk)
         IN  /\ cache' = r.cache
             /\ store' = r.store
             /\ lastOp' = [NoOp EXCEPT !.op = "Insert", !.key = k, !.arg = n,
                                       !.cacheOk = cacheOk, !.storeOk = storeOk,
                                       !.err = r.err, !.storeAttempted = r.storeAttempted,
                                       !.prev = store[k]]
    /\ UNCHANGED <<redisConfigured, gossipVars, msgVars, memVars, checkoutVars, rollbackVars, concVars, muxVars>>

Exists ==
    /\ \E k \in DatasetIds \cup {""}, cacheReadOk \in CacheOutcomes, cacheWriteOk \in CacheOutcomes :
         LET r == DatasetNodeExists(cache, store, k, redisConfigured, cacheReadOk, cacheWriteOk)
         IN  /\ cache' = r.cache
             /\ lastOp' = [NoOp EXCEPT !.op = "Exists", !.key = k,
                                       !.cacheOk = cacheReadOk,
                                       !.cacheWriteOk = cacheWriteOk,
                                       !.inCache = (k # "" /\ cache[k] # Nil),
                                       !.inStore = (k # "" /\ store[k] # Nil),
                                       !.exists = r.exists]
    /\ UNCHANGED <<redisConfigured, store, gossipVars, msgVars, memVars, checkoutVars, rollbackVars, concVars, muxVars>>

Get ==
    /\ \E k \in DatasetIds, cacheOk \in CacheOutcomes :
         lastOp' = [NoOp EXCEPT !.op = "Get", !.key = k, !.cacheOk = cacheOk,
                                !.inCache = (cache[k] # Nil),
                                !.inStore = (store[k] # Nil),
                                !.node = DatasetNode(cache, store, k, redisConfigured, cacheOk)]
    /\ UNCHANGED <<redisConfigured, cache, store, gossipVars, msgVars, memVars, checkoutVars, rollbackVars, concVars, muxVars>>

Remove ==
    /\ \E k \in DatasetIds, cacheOk \in CacheOutcomes, storeOk \in BOOLEAN :
         LET r == RemoveDatasetNode(cache, store, k, redisConfigured, cacheOk, storeOk)
         IN  /\ cache' = r.cache
             /\ store' = r.store
             /\ lastOp' = [NoOp EXCEPT !.op = "Remove", !.key = k, !.cacheOk = cacheOk,
                                       !.storeOk = storeOk, !.err = r.err]
    /\ UNCHANGED <<redisConfigured, gossipVars, msgVars, memVars, checkoutVars, rollbackVars, concVars, muxVars>>

Identifiers ==
    /\ \E cacheOk \in CacheOutcomes :
         lastOp' = [NoOp EXCEPT !.op = "Identifiers", !.cacheOk = cacheOk,
                                !.ids = DatasetIdentifiers(cache, store, redisConfigured, cacheOk)]
    /\ UNCHANGED <<redisConfigured, cache, store, gossipVars, msgVars, memVars, checkoutVars, rollbackVars, concVars, muxVars>>

\* FLUSHALL: at service start-up, or the cache losing its content
flushAll ==
    /\ redisConfigured
    /\ cache' = EmptyCache
    /\ lastOp' = [NoOp EXCEPT !.op = "Flush"]
    /\ UNCHANGED <<redisConfigured, store, gossipVars, msgVars, memVars, checkoutVars, rollbackVars, concVars, muxVars>>

LookupNext == Insert \/ Exists \/ Get \/ Remove \/ Identifiers \/ flushAll

(***************************************************************************)
(* Directory server core: rollbackCheckout                                 *)
(***************************************************************************)
NodeAddrs == {"10.0.0.1:8000", "10.0.0.2:8000"}

\* What the channel returned by SendTo delivers: a nil response, a response
\* whose data is a message with a good or a bad signature, or bytes that do
\* not unmarshal.
NoResponse == "none"
Responses == {"nil", "signed", "badSignature", "garbled"}

ErrRollbackUnverified == "Could not verify dataset checkout rollback"

\* pc: "idle" before the call, "sent" after SendTo returned and before the
\* select statement is evaluated, "blocked" while the goroutine is parked in
\* the select, "returned" after the call.  first: which of the response and
\* the context's end happened first.
NoRollback == [pc |-> "idle", dataset |-> "", nodeAddr |-> "", ch |-> NoResponse,
               ctxDone |-> FALSE, first |-> "none", branch |-> "none", ret |-> "nil"]

RollbackIdle == rollback = NoRollback

\* A select that waits for the response alone.
selectReadyResponseOnly(ch, ctxDone) ==
    IF ch # NoResponse THEN {"resp"} ELSE {}

\* The cases of the select statement that can proceed; with more than one,
\* Go takes one of them by a uniform pseudo-random choice.
selectReady(ch, ctxDone) ==
    (IF ch # NoResponse THEN {"resp"} ELSE {}) \cup (IF ctxDone THEN {"ctx"} ELSE {})

\* What rollbackCheckout returns from the case taken.
selectResult(branch, response) ==
    IF branch = "ctx" THEN ErrRollbackUnverified
    ELSE IF response = "nil" THEN "nil"
    ELSE IF response = "garbled" THEN "unmarshal"
    ELSE verifyMessageSignature(response = "signed")

\* Marshal, Sign, Marshal, SendTo: a Sign error is returned before anything is sent.
RollbackSend ==
    /\ rollback.pc = "idle"
    /\ \E nodeAddr \in NodeAddrs, dataset \in DatasetIds, signOk \in BOOLEAN :
         rollback' = IF signOk
                     THEN [rollback EXCEPT !.pc = "sent", !.dataset = dataset,
                                           !.nodeAddr = nodeAddr]
                     ELSE [rollback EXCEPT !.pc = "returned", !.dataset = dataset,
                                           !.nodeAddr = nodeAddr, !.ret = "sign"]
    /\ UNCHANGED <<gossipVars, msgVars, memVars, checkoutVars, lookupVars, concVars, muxVars>>

\* The goroutine reaches the select: it takes a case that can proceed, or parks.
RollbackSelect ==
    /\ rollback.pc = "sent"
    /\ LET ready == selectReady(rollback.ch, rollback.ctxDone)
       IN  IF ready = {}
           THEN rollback' = [rollback EXCEPT !.pc = "blocked"]
           ELSE \E b \in ready :
                  rollback' = [rollback EXCEPT !.pc = "returned", !.branch = b,
                                               !.ret = selectResult(b, rollback.ch)]
    /\ UNCHANGED <<gossipVars, msgVars, memVars, checkoutVars, lookupVars, concVars, muxVars>>

\* The response arrives on the channel; a goroutine parked in the select is
\* woken by it and takes that case.
ResponseArrives ==
    /\ rollback.pc \in {"sent", "blocked"}
    /\ rollback.ch = NoResponse
    /\ \E v \in Responses :
         LET f == IF rollback.first = "none" THEN "resp" ELSE rollback.first
         IN  rollback' =
               IF rollback.pc = "blocked" /\ "resp" \in selectReady(v, rollback.ctxDone)
               THEN [rollback EXCEPT !.pc = "returned", !.ch = v, !.first = f,
                                     !.branch = "resp", !.ret = selectResult("resp", v)]
               ELSE [rollback EXCEPT !.ch = v, !.first = f]
    /\ UNCHANGED <<gossipVars, msgVars, memVars, checkoutVars, lookupVars, concVars, muxVars>>

\* The caller's context ends (deadline or cancel), before or during the call;
\* a goroutine parked in the select is woken by it and takes that case.
ContextDone ==
    /\ rollback.pc \in {"idle", "sent", "blocked"}
    /\ ~rollback.ctxDone
    /\ LET f == IF rollback.first = "none" THEN "ctx" ELSE rollback.first
       IN  rollback' =
             IF rollback.pc = "blocked" /\ "ctx" \in selectReady(rollback.ch, TRUE)
             THEN [rollback EXCEPT !.pc = "returned", !.ctxDone = TRUE, !.first = f,
                                   !.branch = "ctx", !.ret = selectResult("ctx", rollback.ch)]
             ELSE [rollback EXCEPT !.ctxDone = TRUE, !.first = f]
    /\ UNCHANGED <<gossipVars, msgVars, memVars, checkoutVars, lookupVars, concVars, muxVars>>

RollbackNext == RollbackSend \/ RollbackSelect \/ ResponseArrives \/ ContextDone

(***************************************************************************)
(* Dataset lookup service under concurrent callers.  The service holds no  *)
(* lock: every Redis command and every SQL statement is one step, and the  *)
(* steps of concurrent calls interleave freely.                            *)
(***************************************************************************)
Callers == {"c1", "c2"}

NoCall == [op |-> "none", key |-> "", node |-> "", pc |-> "done",
           exists |-> FALSE, sel |-> Nil, ret |-> "none", cacheErr |-> FALSE]

\* Where a call starts: at its Redis command when there is a Redis client,
\* else at its first SQL statement.
FirstPc(op, configured) ==
    IF configured THEN "cache"
    ELSE IF op = "Exists" THEN "dbExists" ELSE "db"

NewCall(op, k, n, configured) ==
    [NoCall EXCEPT !.op = op, !.key = k, !.node = n, !.pc = FirstPc(op, configured),
                   !.ret = "pending"]

\* The calls that may be in flight together
ConcCalls(configured) ==
    {NewCall("Insert", k, n, configured) : k \in DatasetIds, n \in NodeNames}
    \cup {NewCall("Remove", k, "", configured) : k \in DatasetIds}
    \cup {NewCall("Exists", k, "", configured) : k \in DatasetIds}

ConcIdle == calls = [c \in Callers |-> NoCall]

\* InsertDatasetNode, first half: cacheInsertDatasetNode; its error is logged
InsertCacheWrite(c) ==
    /\ calls[c].op = "Insert" /\ calls[c].pc = "cache"
    /\ \E cacheOk \in BOOLEAN :
         LET cw == cacheInsertDatasetNode(cache, calls[c].key, calls[c].node, cacheOk)
         IN  /\ cache' = cw.cache
             /\ calls' = [calls EXCEPT ![c].pc = "db", ![c].cacheErr = (cw.err # "nil")]
    /\ UNCHANGED <<redisConfigured, store, lastOp,
                   gossipVars, msgVars, memVars, checkoutVars, rollbackVars, muxVars>>

\* InsertDatasetNode, second half: return d.dbInsertDatasetNode(datasetId, node)
InsertDbWrite(c) ==
    /\ calls[c].op = "Insert" /\ calls[c].pc = "db"
    /\ \E storeOk \in BOOLEAN :
         LET sw == dbInsertDatasetNode(store, calls[c].key, calls[c].node, storeOk)
         IN  /\ store' = sw.store
             /\ calls' = [calls EXCEPT ![c].pc = "done", ![c].ret = sw.err]
    /\ UNCHANGED <<redisConfigured, cache, lastOp,
                   gossipVars, msgVars, memVars, checkoutVars, rollbackVars, muxVars>>

\* RemoveDatasetNode, first half: cacheRemoveDatasetNode; its error is logged
RemoveCacheDelete(c) ==
    /\ calls[c].op = "Remove" /\ calls[c].pc = "cache"
    /\ \E cacheOk \in BOOLEAN :
         LET cr == cacheRemoveDatasetNode(cache, calls[c].key, cacheOk)
         IN  /\ cache' = cr.cache
             /\ calls' = [calls EXCEPT ![c].pc = "db", ![c].cacheErr = ~cacheOk]
    /\ UNCHANGED <<redisConfigured, store, lastOp,
                   gossipVars, msgVars, memVars, checkoutVars, rollbackVars, muxVars>>

\* RemoveDatasetNode, second half: return d.dbRemoveDatasetNode(datasetId)
RemoveDbDelete(c) ==
    /\ calls[c].op = "Remove" /\ calls[c].pc = "db"
    /\ \E storeOk \in BOOLEAN :
         LET sr == dbRemoveDatasetNode(store, calls[c].key, storeOk)
         IN  /\ store' = sr.store
             /\ calls' = [calls EXCEPT ![c].pc = "done", ![c].ret = sr.err]
    /\ UNCHANGED <<redisConfigured, cache, lastOp,
                   gossipVars, msgVars, memVars, checkoutVars, rollbackVars, muxVars>>

\* DatasetNodeExists: cacheDatasetNodeExists; a hit without an error is returned
ExistsCacheRead(c) ==
    /\ calls[c].op = "Exists" /\ calls[c].pc = "cache"
    /\ \E cacheOk \in BOOLEAN :
         LET r == cacheDatasetNodeExists(cache, calls[c].key, cacheOk)
         IN  calls' = IF r.exists /\ r.err = "nil"
                      THEN [calls EXCEPT ![c].pc = "done", ![c].exists = TRUE,
                                         ![c].ret = "true"]
                      ELSE [calls EXCEPT ![c].pc = "dbExists",
                                         ![c].cacheErr = (r.err # "nil")]
    /\ UNCHANGED <<redisConfigured, cache, store, lastOp,
                   gossipVars, msgVars, memVars, checkoutVars, rollbackVars, muxVars>>

\* DatasetNodeExists: exists := d.dbDatasetNodeExists(datasetId)
ExistsDbExists(c) ==
    /\ calls[c].op = "Exists" /\ calls[c].pc = "dbExists"
    /\ LET exists == dbDatasetNodeExists(store, calls[c].key)
       IN  calls' = IF exists /\ redisConfigured
                    THEN [calls EXCEPT ![c].pc = "dbSelect", ![c].exists = exists]
                    ELSE [calls EXCEPT ![c].pc = "done", ![c].exists = exists,
                                       ![c].ret = IF exists THEN "true" ELSE "false"]
    /\ UNCHANGED <<redisConfigured, cache, store, lastOp,
                   gossipVars, msgVars, memVars, checkoutVars, rollbackVars, muxVars>>

\* DatasetNodeExists: node := d.dbSelectDatasetNode(datasetId)
ExistsDbSelect(c) ==
    /\ calls[c].op = "Exists" /\ calls[c].pc = "dbSelect"
    /\ LET node == dbSelectDatasetNode(store, calls[c].key)
       IN  calls' = IF node # Nil
                    THEN [calls EXCEPT ![c].pc = "repair", ![c].sel = node]
                    ELSE [calls EXCEPT ![c].pc = "done", ![c].ret = "true"]
    /\ UNCHANGED <<redisConfigured, cache, store, lastOp,
                   gossipVars, msgVars, memVars, checkoutVars, rollbackVars, muxVars>>

\* DatasetNodeExists: d.redisClient.Set(datasetId, nodeBytes, 0), then return exists
ExistsCacheRepair(c) ==
    /\ calls[c].op = "Exists" /\ calls[c].pc = "repair"
    /\ \E cacheOk \in BOOLEAN :
         LET cw == cacheInsertDatasetNode(cache, calls[c].key, calls[c].sel[1], cacheOk)
         IN  /\ cache' = cw.cache
             /\ calls' = [calls EXCEPT ![c].pc = "done", ![c].ret = "true",
                                       ![c].cacheErr = @ \/ cw.err # "nil"]
    /\ UNCHANGED <<redisConfigured, store, lastOp,
                   gossipVars, msgVars, memVars, checkoutVars, rollbackVars, muxVars>>

ConcNext ==
    \E c \in Callers :
        \/ InsertCacheWrite(c) \/ InsertDbWrite(c)
        \/ RemoveCacheDelete(c) \/ RemoveDbDelete(c)
        \/ ExistsCacheRead(c) \/ ExistsDbExists(c)
        \/ ExistsDbSelect(c) \/ ExistsCacheRepair(c)

\* Every call of the run has returned
AllReturned == \A c \in Callers : calls[c].pc = "done"

(***************************************************************************)
(* Mux: the HTTP handlers of src/core/mux/http.go                          *)
(***************************************************************************)
\* An http.ResponseWriter: the status line sent (the first WriteHeader call
\* wins, later ones are superfluous), every WriteHeader call made, and the
\* chunks written to the body.
NewWriter == [status |-> "none", headerCalls |-> <<>>, body |-> <<>>]

WriteHeader(w, code) ==
    [w EXCEPT !.status = IF @ = "none" THEN code ELSE @,
              !.headerCalls = Append(@, code)]

\* Write sends the 200 status line first when no status was sent yet
Write(w, data) ==
    [w EXCEPT !.status = IF @ = "none" THEN "200" ELSE @,
              !.body = Append(@, data)]

\* http.Error: WriteHeader(code), then the error text as the body
httpError(w, code) == Write(WriteHeader(w, code), "error:" \o code)

\* What m.datasetMetadata and m.dataset return: the bytes and no error, or
\* an error with no bytes or with the bytes read so far.
FetchOutcomes ==
    {[data |-> "payload", err |-> "nil"],
     [data |-> "", err |-> "err"],
     [data |-> "partial", err |-> "err"]}

\* getDatasetMetadata: the error branch has no return
getDatasetMetadata(w, dataset, fetch) ==
    IF dataset = "" THEN httpError(w, "400")
    ELSE LET w1 == IF fetch.err # "nil" THEN httpError(w, "400") ELSE w
         IN  Write(WriteHeader(w1, "200"), fetch.data)

\* getDataset: the error is logged
getDataset(w, dataset, fetch) ==
    IF dataset = "" THEN httpError(w, "400")
    ELSE Write(WriteHeader(w, "200"), fetch.data)

NoMuxResp == [handler |-> "none", dataset |-> "", fetched |-> FALSE,
              fetchErr |-> "nil", w |-> NewWriter]

GetDatasetMetadataRequest ==
    /\ \E dataset \in DatasetIds \cup {""}, fetch \in FetchOutcomes :
         muxResp' = [handler |-> "getDatasetMetadata", dataset |-> dataset,
                     fetched |-> (dataset # ""),
                     fetchErr |-> IF dataset # "" THEN fetch.err ELSE "nil",
                     w |-> getDatasetMetadata(NewWriter, dataset, fetch)]
    /\ muxResp' # muxResp
    /\ UNCHANGED <<idsReq, gossipVars, msgVars, memVars, checkoutVars, lookupVars,
                   rollbackVars, concVars>>

GetDatasetRequest ==
    /\ \E dataset \in DatasetIds \cup {""}, fetch \in FetchOutcomes :
         muxResp' = [handler |-> "getDataset", dataset |-> dataset,
                     fetched |-> (dataset # ""),
                     fetchErr |-> IF dataset # "" THEN fetch.err ELSE "nil",
                     w |-> getDataset(NewWriter, dataset, fetch)]
    /\ muxResp' # muxResp
    /\ UNCHANGED <<idsReq, gossipVars, msgVars, memVars, checkoutVars, lookupVars,
                   rollbackVars, concVars>>

\* getNetworkDatasetIdentifiers: the handler (hpc) and its worker goroutine
\* (wpc), the request context, and the two unbuffered channels.  A sender on
\* an unbuffered channel stays at its send until a receiver takes the value.
NoIdsReq == [hpc |-> "idle", wpc |-> "idle", ctxDone |-> FALSE,
             setsClosed |-> FALSE, errClosed |-> FALSE, branch |-> "none",
             w |-> NewWriter]

\* The handler derives the context, makes the channels, starts the worker and
\* reaches its select.
getNetworkDatasetIdentifiers ==
    /\ idsReq.hpc = "idle"
    /\ idsReq' = [NoIdsReq EXCEPT !.hpc = "select", !.wpc = "running"]
    /\ UNCHANGED <<muxResp, gossipVars, msgVars, memVars, checkoutVars, lookupVars,
                   rollbackVars, concVars>>

\* The worker: sets, err := m.datasetIdentifiers(ctx); it then stands at
\* errChan <- err or at setsChan <- sets.
IdentifiersWorkerFetch ==
    /\ idsReq.wpc = "running"
    /\ \E outcome \in {"sendErr", "sendSets"} :
         idsReq' = [idsReq EXCEPT !.wpc = outcome]
    /\ UNCHANGED <<muxResp, gossipVars, msgVars, memVars, checkoutVars, lookupVars,
                   rollbackVars, concVars>>

\* The ten-second deadline passes, or the client goes away
IdentifiersDeadline ==
    /\ idsReq.hpc = "select"
    /\ ~idsReq.ctxDone
    /\ idsReq' = [idsReq EXCEPT !.ctxDone = TRUE]
    /\ UNCHANGED <<muxResp, gossipVars, msgVars, memVars, checkoutVars, lookupVars,
                   rollbackVars, concVars>>

\* The cases of the handler's select that can proceed
identifiersReady(q) ==
    (IF q.ctxDone THEN {"ctx"} ELSE {})
    \cup (IF q.wpc = "sendErr" \/ q.errClosed THEN {"err"} ELSE {})
    \cup (IF q.wpc = "sendSets" THEN {"sets"} ELSE {})

\* The select takes one ready case, the handler writes the response and
\* returns; its deferred calls close setsChan and cancel the context.  A worker
\* whose value was received returns too and closes errChan.
IdentifiersSelect ==
    /\ idsReq.hpc = "select"
    /\ \E branch \in identifiersReady(idsReq) :
         LET received == (branch = "err" /\ idsReq.wpc = "sendErr")
                         \/ (branch = "sets" /\ idsReq.wpc = "sendSets")
         IN  idsReq' = [idsReq EXCEPT
                 !.hpc = "returned",
                 !.branch = branch,
                 !.w = IF branch = "ctx" THEN httpError(@, "408")
                       ELSE IF branch = "err" THEN httpError(@, "400")
                       ELSE Write(WriteHeader(@, "200"), "sets"),
                 !.setsClosed = TRUE,
                 !.ctxDone = TRUE,
                 !.wpc = IF received THEN "done" ELSE @,
                 !.errClosed = IF received THEN TRUE ELSE @]
    /\ UNCHANGED <<muxResp, gossipVars, msgVars, memVars, checkoutVars, lookupVars,
                   rollbackVars, concVars>>

\* setsChan <- sets after the handler closed setsChan: a send on a closed
\* channel panics.  (errChan <- err after the handler returned finds no
\* receiver, ever: the worker has no further step.)
IdentifiersWorkerSend ==
    /\ idsReq.wpc = "sendSets"
    /\ idsReq.setsClosed
    /\ idsReq' = [idsReq EXCEPT !.wpc = "panic"]
    /\ UNCHANGED <<muxResp, gossipVars, msgVars, memVars, checkoutVars, lookupVars,
                   rollbackVars, concVars>>

MuxIdle == idsReq = NoIdsReq /\ muxResp = NoMuxResp

MuxNext ==
    \/ GetDatasetMetadataRequest \/ GetDatasetRequest
    \/ getNetworkDatasetIdentifiers \/ IdentifiersWorkerFetch \/ IdentifiersDeadline
    \/ IdentifiersSelect \/ IdentifiersWorkerSend

(***************************************************************************)
(* Specifications                                                          *)
(***************************************************************************)
GossipInit == GossipIdle /\ MsgIdle /\ MemberIdle /\ CheckoutIdle /\ LookupIdle /\ RollbackIdle /\ ConcIdle /\ MuxIdle
SpecGossip == GossipInit /\ [][GossipNext]_vars

MsgInit == GossipIdle /\ MsgIdle /\ MemberIdle /\ CheckoutIdle /\ LookupIdle /\ RollbackIdle /\ ConcIdle /\ MuxIdle
SpecMsg == MsgInit /\ [][MsgNext]_vars

MemberInit == GossipIdle /\ MsgIdle /\ MemberIdle /\ CheckoutIdle /\ LookupIdle /\ RollbackIdle /\ ConcIdle /\ MuxIdle
SpecMember == MemberInit /\ [][MemberNext]_vars

\* The node table as handshakes have left it: every name is either not
\* registered or registered once with some node.
Registrations == [NodeNames -> {NilNode} \cup PbNodes]
MemberRemoveInit ==
    /\ GossipIdle /\ MsgIdle /\ CheckoutIdle /\ LookupIdle /\ RollbackIdle /\ ConcIdle /\ MuxIdle
    /\ \E reg \in Registrations :
         /\ \A n \in NodeNames : reg[n].isNil \/ reg[n].name = n
         /\ storageNodeTable = {NodeRow(n, reg[n]) : n \in {x \in NodeNames : ~reg[x].isNil}}
         /\ lastHandshake = [n \in NodeNames |->
                               IF reg[n].isNil THEN NoHandshake
                               ELSE [count |-> 1, node |-> reg[n], changed |-> FALSE]]
         /\ hsRet = IF \A n \in NodeNames : reg[n].isNil THEN NoHsRet
                    ELSE [NoHsRet EXCEPT !.called = TRUE, !.resp = HandshakeResponse,
                                         !.nodeName = CHOOSE n \in NodeNames : ~reg[n].isNil]
    /\ lastRemove = NoRemove
SpecMemberRemove == MemberRemoveInit /\ [][MemberRemoveNext]_vars

RollbackInit == GossipIdle /\ MsgIdle /\ MemberIdle /\ CheckoutIdle /\ LookupIdle /\ RollbackIdle /\ ConcIdle /\ MuxIdle
SpecRollback == RollbackInit /\ [][RollbackNext]_vars
\* The goroutine is scheduled: once it is at the select it evaluates it.  The
\* network and the caller owe nothing: no fairness for the response or the context.
SpecRollbackLive == SpecRollback /\ WF_vars(RollbackSelect)

\* NodeWithMultipleCheckouts sets the flag before the node core is built
CheckoutInit ==
    /\ GossipIdle /\ MsgIdle /\ MemberIdle /\ LookupIdle /\ RollbackIdle /\ ConcIdle /\ MuxIdle
    /\ allowMultipleCheckouts \in BOOLEAN
    /\ datasetCheckoutTable = <<>>
    /\ pc = [r \in Requests |-> "idle"]
    /\ req = [r \in Requests |-> NoRequest]
    /\ resp = [r \in Requests |-> "none"]
SpecCheckout == CheckoutInit /\ [][CheckoutNext]_vars

\* RedisClientOptions may be nil: the service then runs on the database alone
LookupInit ==
    /\ GossipIdle /\ MsgIdle /\ MemberIdle /\ CheckoutIdle /\ RollbackIdle /\ ConcIdle /\ MuxIdle
    /\ redisConfigured \in BOOLEAN
    /\ cache = EmptyCache
    /\ store = EmptyStore
    /\ lastOp = NoOp
SpecLookup == LookupInit /\ [][LookupNext]_vars

\* The lookup service as sequential use leaves it (every key absent, or owned
\* and cached or not yet cached), with one call started by every caller.
ConcInit ==
    /\ GossipIdle /\ MsgIdle /\ MemberIdle /\ CheckoutIdle /\ RollbackIdle /\ MuxIdle
    /\ redisConfigured \in BOOLEAN
    /\ store \in [DatasetIds -> {Nil, Some("n1")}]
    /\ cache \in [DatasetIds -> {Nil, Some(Marshal("n1"))}]
    /\ \A k \in DatasetIds :
         cache[k] # Nil => (redisConfigured /\ store[k] # Nil)
    /\ lastOp = NoOp
    /\ calls \in [Callers -> ConcCalls(redisConfigured)]
SpecLookupConc == ConcInit /\ [][ConcNext]_vars

MuxInit ==
    /\ GossipIdle /\ MsgIdle /\ MemberIdle /\ CheckoutIdle /\ LookupIdle /\ RollbackIdle
    /\ ConcIdle /\ MuxIdle
SpecMux == MuxInit /\ [][MuxNext]_vars

(***************************************************************************)
(* Properties                                                              *)
(***************************************************************************)
RecordsOf(table, datasetId) == {i \in DOMAIN table : table[i].dataset = datasetId}
AuthenticationError ==
    "DirectoryServerCore could not securely verify the integrity of the message"

\* C1 (gossip idempotence): however often a POLICY_STORE_UPDATE gossip message
\* has been delivered (at least once), applyPolicy has been invoked exactly once
\* for each policy it contains, and the message is recorded as observed.
C1_GossipIdempotence ==
    (deliveries >= 1 /\ gossipMsg.type = MSG_TYPE_POLICY_STORE_UPDATE
                     /\ gossipMsg.gossipMessage # Nil)
        => /\ applyLog = gossipMsg.gossipMessage[1].body
           /\ GossipIsObserved(gossipObs, gossipMsg.gossipMessage)

\* C2 (checkout exclusivity): with multiple checkouts disabled, no dataset ever
\* has more than one checkout record, whatever the interleaving of the requests.
C2_CheckoutExclusivity ==
    ~allowMultipleCheckouts =>
        \A d \in RequestDatasets : Cardinality(RecordsOf(datasetCheckoutTable, d)) <= 1

\* C3 (signature gate): a direct message whose signature does not verify is
\* answered with an authentication error and no response, and leaves the
\* lookup table as it was.
C3_SignatureGate ==
    (lastMsg.type # "none" /\ ~lastMsg.sigOk)
        => /\ msgRet.err = AuthenticationError
           /\ msgRet.resp = Nil
           /\ dsLookup = lookupPre

\* C4 (delta resolution removes stale entries): after a successfully handled
\* synchronize-dataset-identifiers message from N with identifier set S, no
\* entry that N owned outside S is left, and N's entries inside S are kept.
C4_DeltaRemovesStale ==
    (lastMsg.type = MSG_SYNCHRONIZE_DATASET_IDENTIFIERS /\ msgRet.err = "nil")
        => \A d \in DatasetIds :
             /\ (lookupPre[d] = lastMsg.sender.name /\ d \notin lastMsg.stringSlice)
                    => dsLookup[d] = NoOwner
             /\ (lookupPre[d] = lastMsg.sender.name /\ d \in lastMsg.stringSlice)
                    => dsLookup[d] = lastMsg.sender.name

\* C5 (delta resolution frame): handling a synchronize-dataset-identifiers
\* message from N leaves every lookup entry owned by another node unchanged.
C5_DeltaFrame ==
    lastMsg.type = MSG_SYNCHRONIZE_DATASET_IDENTIFIERS
        => \A d \in DatasetIds :
             (lookupPre[d] # NoOwner /\ lookupPre[d] # lastMsg.sender.name)
                 => dsLookup[d] = lookupPre[d]

\* A successful synchronization that does not list a dataset another node owns
C5_Witness ==
    /\ lastMsg.type = MSG_SYNCHRONIZE_DATASET_IDENTIFIERS
    /\ msgRet.err = "nil"
    /\ \E d \in DatasetIds :
         /\ lookupPre[d] # NoOwner
         /\ lookupPre[d] # lastMsg.sender.name
         /\ d \notin lastMsg.stringSlice
         /\ dsLookup[d] = lookupPre[d]

\* C6 (cache-store consistency): right after InsertDatasetNode(k, v) returned
\* no error, DatasetNodeExists(k) is true and DatasetNode(k) is v, whether the
\* cache answers or fails, and whether or not the cache is flushed first.
C6_CacheStoreConsistency ==
    (lastOp.op = "Insert" /\ lastOp.err = "nil")
        => \A flushed \in BOOLEAN, cacheOk \in CacheOutcomes :
             LET c == IF flushed THEN EmptyCache ELSE cache
             IN  /\ DatasetNodeExists(c, store, lastOp.key, redisConfigured,
                                      cacheOk, cacheOk).exists
                 /\ DatasetNode(c, store, lastOp.key, redisConfigured, cacheOk)
                        = Some(lastOp.arg)

\* C7 (upsert idempotence) as stated: one row per registered name, and the node
\* read back from it is the node of the most recent successful Handshake.
C7_UpsertLatestFields ==
    /\ \A r \in storageNodeTable :
         r.node_name \in NodeNames /\ lastHandshake[r.node_name].count > 0
    /\ \A n \in NodeNames :
         lastHandshake[n].count > 0
             => /\ Cardinality({r \in storageNodeTable : r.node_name = n}) = 1
                /\ dbSelectNetworkNode(storageNodeTable, n) = lastHandshake[n].node

\* C7 amended: the same, the boot time being kept to the whole second.
C7_UpsertLatestFieldsToSecond ==
    /\ \A r \in storageNodeTable :
         r.node_name \in NodeNames /\ lastHandshake[r.node_name].count > 0
    /\ \A n \in NodeNames :
         lastHandshake[n].count > 0
             => /\ Cardinality({r \in storageNodeTable : r.node_name = n}) = 1
                /\ dbSelectNetworkNode(storageNodeTable, n)
                     = [lastHandshake[n].node EXCEPT !.bootTime.nanos = 0]

\* A name registered twice, the second time with other field values
C7_Witness ==
    \E n \in NodeNames :
        /\ lastHandshake[n].count = 2
        /\ lastHandshake[n].changed
        /\ hsRet.err = "nil"
        /\ NodeRow(n, lastHandshake[n].node) \in storageNodeTable

\* C8 (unverified gossip is dropped): a delivery whose signature does not
\* verify passes no policy to applyPolicy.
C8_UnverifiedGossipDropped ==
    (lastGossip.delivered /\ ~lastGossip.sigOk) => lastGossip.calls = 0

\* C9 (multiple checkouts): with multiple checkouts enabled no request is
\* rejected as already checked out, and every request that got past the
\* checkout insert has its own record in the dataset's checkout list.
C9_MultipleCheckoutsSucceed ==
    allowMultipleCheckouts =>
        /\ \A r \in Requests : resp[r] # "401 already checked out"
        /\ \A d \in RequestDatasets :
             Cardinality(RecordsOf(datasetCheckoutTable, d))
                 = Cardinality({r \in Requests : /\ req[r].datasetId = d
                                                 /\ resp[r] \in PostInsertResponses})

\* Two served requests for d1, tokens X and Y, and two records for d1
C9_Witness ==
    /\ allowMultipleCheckouts
    /\ \E r1, r2 \in Requests :
         /\ r1 # r2
         /\ req[r1] = [datasetId |-> "d1", authorization |-> <<"Bearer", "tokenX">>]
         /\ req[r2] = [datasetId |-> "d1", authorization |-> <<"Bearer", "tokenY">>]
         /\ resp[r1] = "200" /\ resp[r2] = "200"
    /\ Cardinality(RecordsOf(datasetCheckoutTable, "d1")) = 2
    /\ {datasetCheckoutTable[i].client : i \in RecordsOf(datasetCheckoutTable, "d1")}
           = {"tokenX", "tokenY"}

\* C10 (insert authority): InsertDatasetNode returns an error exactly when the
\* database write fails; the database write is always attempted, and a cache
\* failure alone leaves the insert successful with the value in the database.
C10_InsertAuthority ==
    lastOp.op = "Insert"
        => /\ (lastOp.err # "nil") <=> ~lastOp.storeOk
           /\ lastOp.storeAttempted
           /\ lastOp.storeOk => store[lastOp.key] = Some(lastOp.arg)

\* An insert whose cache write failed and whose database write went through
C10_Witness ==
    /\ redisConfigured
    /\ lastOp.op = "Insert"
    /\ ~lastOp.cacheOk
    /\ lastOp.storeOk
    /\ lastOp.err = "nil"
    /\ store[lastOp.key] = Some(lastOp.arg)
    /\ cache[lastOp.key] # Some(Marshal(lastOp.arg))

\* C11 (Get write-back): after DatasetNode(k) missed in a configured, reachable
\* cache and found the value in the database, the cache contains k.
C11_GetWriteBack ==
    (lastOp.op = "Get" /\ redisConfigured /\ lastOp.cacheOk
                       /\ ~lastOp.inCache /\ lastOp.inStore)
        => cache[lastOp.key] # Nil

\* C12 (Exists self-healing) as stated: DatasetNodeExists(k) is true exactly
\* when k is in the cache (a cache error counting as a miss) or in the database,
\* and whenever k was found only in the database the cache holds k's value
\* when true is returned.
C12_ExistsSelfHealing ==
    lastOp.op = "Exists"
        => /\ lastOp.exists <=> \/ (redisConfigured /\ lastOp.cacheOk /\ lastOp.inCache)
                                \/ lastOp.inStore
           /\ (redisConfigured /\ lastOp.inStore /\ ~(lastOp.cacheOk /\ lastOp.inCache))
                  => cache[lastOp.key] = Some(Marshal(store[lastOp.key][1]))

\* C12 amended: the same, the cache being repopulated unless the cache write
\* itself fails (the failure is logged and true is still returned).
C12_ExistsSelfHealingUnlessWriteFails ==
    lastOp.op = "Exists"
        => /\ lastOp.exists <=> \/ (redisConfigured /\ lastOp.cacheOk /\ lastOp.inCache)
                                \/ lastOp.inStore
           /\ (redisConfigured /\ lastOp.inStore /\ ~(lastOp.cacheOk /\ lastOp.inCache)
                                /\ lastOp.cacheWriteOk)
                  => cache[lastOp.key] = Some(Marshal(store[lastOp.key][1]))
           /\ (redisConfigured /\ lastOp.inStore /\ ~lastOp.inCache /\ ~lastOp.cacheWriteOk)
                  => lastOp.exists /\ cache[lastOp.key] = Nil

\* A key found only in the database, and the cache repaired by the call
C12_Witness ==
    /\ redisConfigured
    /\ lastOp.op = "Exists"
    /\ lastOp.cacheOk /\ lastOp.cacheWriteOk
    /\ ~lastOp.inCache /\ lastOp.inStore
    /\ lastOp.exists
    /\ cache[lastOp.key] = Some(Marshal(store[lastOp.key][1]))

\* C13 (Identifiers survives cache loss): DatasetIdentifiers() returns the
\* key set of the database, in every reachable state (so also after a flush).
C13_IdentifiersEqualStoreKeys ==
    lastOp.op = "Identifiers" => lastOp.ids = {k \in DatasetIds : store[k] # Nil}


\* C14 (remove of an absent key is reported): deleting a node the table does not
\* contain returns an error and leaves the table as it was; deleting a node the
\* table contains, the database working, returns no error and deletes that row
\* and no other.
C14_RemoveAbsentReported ==
    lastRemove.called
        => LET present == \E r \in lastRemove.pre : r.node_name = lastRemove.nodeId
           IN  /\ ~present => (lastRemove.err # "nil" /\ storageNodeTable = lastRemove.pre)
               /\ (present /\ lastRemove.storeOk)
                     => /\ lastRemove.err = "nil"
                        /\ storageNodeTable
                             = {r \in lastRemove.pre : r.node_name # lastRemove.nodeId}
                        /\ Cardinality(storageNodeTable) = Cardinality(lastRemove.pre) - 1
               /\ ~lastRemove.storeOk
                     => (lastRemove.err # "nil" /\ storageNodeTable = lastRemove.pre)

\* A node deleted, and then deleted again: the second delete is refused
C14_Witness ==
    /\ lastRemove.called
    /\ lastRemove.nodeId \in NodeNames
    /\ lastRemove.storeOk
    /\ lastRemove.err = "Could not delete node"
    /\ lastHandshake[lastRemove.nodeId] = NoHandshake
    /\ storageNodeTable = lastRemove.pre
    /\ \E n \in NodeNames : lastHandshake[n].count = 1


C16_BatchContinueOnError ==
    (deliveries >= 1 /\ gossipMsg.type = MSG_TYPE_POLICY_STORE_UPDATE
                     /\ gossipMsg.gossipMessage # Nil
                     /\ gossipMsg.gossipMessage[1].body # <<>>)
        => LET b == gossipMsg.gossipMessage[1].body
           IN  /\ Len(applyLog) = deliveries * Len(b)
               /\ Len(applyEffects) = Len(applyLog)
               /\ \A i \in 1..Len(applyLog) : applyLog[i] = b[((i - 1) % Len(b)) + 1]
               /\ lastGossip.delivered => (lastGossip.ret = "nil" /\ lastGossip.calls = Len(b))

\* A batch whose first entry is a nil policy: it is refused, the second is applied
C16_Witness ==
    /\ deliveries = 1
    /\ lastGossip.delivered /\ lastGossip.ret = "nil"
    /\ gossipMsg.type = MSG_TYPE_POLICY_STORE_UPDATE
    /\ gossipMsg.gossipMessage # Nil
    /\ Len(applyLog) = 2
    /\ applyLog = gossipMsg.gossipMessage[1].body
    /\ applyLog[1] = NilPolicy /\ applyEffects[1].err = "err"
    /\ applyLog[2] \in Policies /\ applyEffects[2].err = "nil"

\* C18 (a policy for a dataset without checkout is recorded): every non-nil
\* policy applied while its dataset had no active checkout has no enforcement
\* effect and is held by the directory server, so that a later checkout of the
\* dataset finds it.
C18_PolicyRecordedForLaterCheckout ==
    /\ Len(applyEffects) = Len(applyLog)
    /\ \A i \in 1..Len(applyLog) :
         (~applyLog[i].isNil /\ ~applyEffects[i].checkedOut)
             => /\ applyEffects[i].effect = "none"
                /\ applyLog[i].datasetIdentifier \in dsPolicies

\* C19 (applyPolicy is a no-op unless the dataset is checked out): an
\* invocation with a nil policy returns an error, one with a non-nil policy
\* for a dataset without checkout returns no error, and neither changes any
\* state: no policy is held or published but for a checked-out dataset.
C19_ApplyPolicyFrame ==
    /\ Len(applyEffects) = Len(applyLog)
    /\ \A i \in 1..Len(applyLog) :
         /\ applyLog[i].isNil
               => (applyEffects[i].err = "err" /\ applyEffects[i].effect = "none")
         /\ (~applyLog[i].isNil /\ ~applyEffects[i].checkedOut)
               => (applyEffects[i].err = "nil" /\ applyEffects[i].effect = "none")
    /\ dsPolicies \subseteq dsCheckedOut

\* A nil policy and a policy for a dataset without checkout were applied while
\* another dataset was checked out
C19_Witness ==
    /\ dsCheckedOut # {}
    /\ dsPolicies = {}
    /\ \E i, j \in 1..Len(applyLog) :
         /\ applyLog[i].isNil /\ applyEffects[i].err = "err"
         /\ ~applyLog[j].isNil /\ ~applyEffects[j].checkedOut
         /\ applyLog[j].datasetIdentifier \notin dsCheckedOut
         /\ applyEffects[j].err = "nil" /\ applyEffects[j].effect = "none"


\* C17 (signed acknowledgement): whenever messageHandler returns without an
\* error, the response it returns carries a signature of the directory server.
C17_SignedAcknowledgement ==
    (lastMsg.type # "none" /\ msgRet.err = "nil")
        => (msgRet.resp # Nil /\ msgRet.resp[1].signed)

\* C20 (Handshake validation): a Handshake with a nil node or a node without a
\* name fails with InvalidArgument, returns no response and leaves the node
\* table as it was; a Handshake with a named node fails only when the database
\* does, and otherwise returns the directory server's address and identity
\* and leaves the node's row in the table.
C20_HandshakeValidation ==
    hsRet.called
        => /\ (hsRet.nodeNil \/ hsRet.nodeName = "")
                 => /\ hsRet.err = "InvalidArgument"
                    /\ hsRet.resp = Nil
                    /\ ~hsRet.changedOnError
           /\ (~hsRet.nodeNil /\ hsRet.nodeName # "")
                 => IF hsRet.err = "nil"
                    THEN /\ hsRet.resp = HandshakeResponse
                         /\ NodeRow(hsRet.nodeName, lastHandshake[hsRet.nodeName].node)
                                \in storageNodeTable
                    ELSE /\ hsRet.err = "exec"
                         /\ hsRet.resp = Nil
                         /\ ~hsRet.changedOnError

\* C21 (unrecognized message type): handling a direct message whose type is
\* neither add-dataset-identifier nor synchronize-dataset-identifiers returns
\* ErrUnknownMessageType and no acknowledgement, and the step changes neither
\* the lookup table nor the node table.
C21_UnknownMessageType ==
    [][(lastMsg'.type \in DirectTypes \ {MSG_TYPE_ADD_DATASET_IDENTIFIER,
                                          MSG_SYNCHRONIZE_DATASET_IDENTIFIERS})
          => /\ msgRet'.err = ErrUnknownMessageType
             /\ msgRet'.resp = Nil
             /\ dsLookup' = dsLookup
             /\ lookupPre' = dsLookup
             /\ storageNodeTable' = storageNodeTable]_vars

\* A message of another type arrived while the lookup table had an entry
C21_Witness ==
    /\ lastMsg.type = "MSG_TYPE_GET_DATASET"
    /\ msgRet.err = ErrUnknownMessageType
    /\ msgRet.resp = Nil
    /\ dsLookup # EmptyLookup
    /\ dsLookup = lookupPre

\* C22 (add-dataset-identifier): an add-dataset-identifier message for d from
\* sender N either leaves d -> N (N the sender's name) in the lookup table,
\* every other entry as it was, and is acknowledged with OK; or, the lookup
\* insert having failed, returns exactly ErrDatasetLookupInsert, no
\* acknowledgement, and leaves the table as it was.  With a named sender and a
\* working store the insert does not fail.
C22_AddDatasetIdentifier ==
    lastMsg.type = MSG_TYPE_ADD_DATASET_IDENTIFIER
        => /\ msgRet.err \in {"nil", ErrDatasetLookupInsert}
           /\ msgRet.err = "nil"
                 => /\ lastMsg.sender.name # ""
                    /\ dsLookup = [lookupPre EXCEPT ![lastMsg.stringValue] = lastMsg.sender.name]
                    /\ msgRet.resp = OkResponse
           /\ msgRet.err = ErrDatasetLookupInsert
                 => (msgRet.resp = Nil /\ dsLookup = lookupPre)
           /\ (lastMsg.sender.name # "" /\ msgRet.storeOk) => msgRet.err = "nil"

\* A dataset announced by n1 is announced by n2: the entry now names n2
C22_Witness ==
    /\ lastMsg.type = MSG_TYPE_ADD_DATASET_IDENTIFIER
    /\ msgRet.err = "nil" /\ msgRet.resp = OkResponse
    /\ lastMsg.sender.name = "n2"
    /\ lookupPre[lastMsg.stringValue] = "n1"
    /\ dsLookup[lastMsg.stringValue] = "n2"

\* C23 (single owner, last writer wins): a dataset identifier has at most one
\* owning node in the cache and in the database, and right after a successful
\* insert of k -> N2 over an entry k -> N1, the lookup that goes through the
\* cache and the lookup that goes to the database both give N2.
C23_SingleOwnerLastWriterWins ==
    /\ \A k \in DatasetIds : Len(store[k]) <= 1 /\ Len(cache[k]) <= 1
    /\ (lastOp.op = "Insert" /\ lastOp.err = "nil"
                             /\ lastOp.prev # Nil /\ lastOp.prev # Some(lastOp.arg))
          => /\ dbSelectDatasetNode(store, lastOp.key) = Some(lastOp.arg)
             /\ DatasetNode(cache, store, lastOp.key, redisConfigured, TRUE)
                    = Some(lastOp.arg)

\* C24 (compensation on a failed checkout pipeline): a request that failed
\* after its checkout record was inserted (no dataset URL, fetch error,
\* non-200 remote status) leaves no checkout record: every dataset has as many
\* records as requests that were served its data.
C24_FailedPipelineRolledBack ==
    \A d \in RequestDatasets :
        Cardinality(RecordsOf(datasetCheckoutTable, d))
            = Cardinality({r \in Requests : req[r].datasetId = d /\ resp[r] = "200"})

C28_SingleCheckoutPerClient ==
    /\ ~allowMultipleCheckouts
          => /\ \A r \in Requests :
                  resp[r] = "401 already checked out"
                      => \E i \in DOMAIN datasetCheckoutTable :
                            /\ datasetCheckoutTable[i].dataset = req[r].datasetId
                            /\ datasetCheckoutTable[i].client
                                   = getBearerToken(req[r].authorization).token
             /\ \A i, j \in DOMAIN datasetCheckoutTable :
                  datasetCheckoutTable[i] = datasetCheckoutTable[j] => i = j
    /\ allowMultipleCheckouts
          => \A r \in Requests : resp[r] # "401 already checked out"

C29_ProbeNoOp ==
    [][(gossipMsg.type = MSG_TYPE_PROBE /\ deliveries' = deliveries + 1)
          => /\ lastGossip'.delivered
             /\ lastGossip'.ret = "nil"
             /\ lastGossip'.calls = 0
             /\ applyLog' = applyLog
             /\ applyEffects' = applyEffects
             /\ UNCHANGED <<gossipMsg, dsCheckedOut, dsPolicies, msgVars, memVars,
                            checkoutVars, lookupVars, rollbackVars, concVars, muxVars>>]_vars

\* A probe that carries policies was delivered: none was applied
C29_Witness ==
    /\ gossipMsg.type = MSG_TYPE_PROBE
    /\ gossipMsg.gossipMessage # Nil
    /\ Len(gossipMsg.gossipMessage[1].body) = 2
    /\ deliveries = 2
    /\ lastGossip.delivered /\ lastGossip.ret = "nil" /\ lastGossip.calls = 0
    /\ applyLog = <<>>
    /\ GossipIsObserved(gossipObs, gossipMsg.gossipMessage)

\* C27 (synchronizing an empty identifier set): a synchronize-dataset-identifiers
\* message from node N that lists no identifier is handled without error and
\* acknowledged with OK, and afterwards no lookup entry is owned by N.
C27_SynchronizeEmptySet ==
    (lastMsg.type = MSG_SYNCHRONIZE_DATASET_IDENTIFIERS
        /\ lastMsg.stringSlice = {} /\ ~lastMsg.sender.isNil)
        => /\ msgRet.err = "nil"
           /\ msgRet.resp = OkResponse
           /\ \A d \in DatasetIds : dsLookup[d] # lastMsg.sender.name

\* C30 (a failed insert leaves no trace): every key the cache holds is held by
\* the database with the same value, and after an InsertDatasetNode(k, v)
\* that returned an error a lookup of k does not give v unless the database
\* held k -> v before.
C30_CacheNeverAheadOfStore ==
    /\ \A k \in DatasetIds :
         cache[k] # Nil => (store[k] # Nil /\ cache[k] = Some(Marshal(store[k][1])))
    /\ (lastOp.op = "Insert" /\ lastOp.err # "nil" /\ lastOp.prev # Some(lastOp.arg))
          => DatasetNode(cache, store, lastOp.key, redisConfigured, TRUE) # Some(lastOp.arg)

\* C33 (success only for an acknowledged rollback): rollbackCheckout returns
\* nil only when it took the response case with a response that decodes and
\* whose signature verifies; a nil response is not a success.
C33_RollbackSuccessAcknowledged ==
    (rollback.pc = "returned" /\ rollback.ret = "nil")
        => (rollback.branch = "resp" /\ rollback.ch = "signed")

C35_MalformedBatchRejected ==
    (lastGossip.delivered /\ gossipMsg.type = MSG_TYPE_POLICY_STORE_UPDATE
        /\ (gossipMsg.gossipMessage = Nil \/ gossipMsg.gossipMessage[1].body = <<>>))
        => /\ lastGossip.ret = "err"
           /\ lastGossip.calls = 0
           /\ applyLog = <<>>
           /\ applyEffects = <<>>

\* A policy store update with a gossip message and no body was delivered
C35_Witness ==
    /\ lastGossip.delivered
    /\ gossipMsg.type = MSG_TYPE_POLICY_STORE_UPDATE
    /\ gossipMsg.gossipMessage # Nil
    /\ gossipMsg.gossipMessage[1].body = <<>>
    /\ lastGossip.ret = "err"
    /\ deliveries = 2
    /\ applyLog = <<>>

\* C31 (a remove is not undone by a concurrent read): when every concurrent
\* call has returned, a RemoveDatasetNode(k) among them returned no error, no
\* call was an insert of k and no Redis command failed, the cache does not
\* hold k and DatasetNodeExists(k) answers false.
C31_RemoveNotUndoneByRead ==
    \A r \in Callers :
        (/\ AllReturned
         /\ redisConfigured
         /\ calls[r].op = "Remove" /\ calls[r].ret = "nil"
         /\ \A c \in Callers : ~calls[c].cacheErr
         /\ \A c \in Callers : ~(calls[c].op = "Insert" /\ calls[c].key = calls[r].key))
        => /\ cache[calls[r].key] = Nil
           /\ ~DatasetNodeExists(cache, store, calls[r].key, redisConfigured, TRUE, TRUE).exists

\* C32 (concurrent inserts converge): when two concurrent InsertDatasetNode
\* calls for the same key with different nodes have both returned, without an
\* error and without a failed Redis command, the cache and the database hold
\* the same owner for the key.
C32_ConcurrentInsertsConverge ==
    \A a, b \in Callers :
        (/\ a # b
         /\ AllReturned
         /\ redisConfigured
         /\ calls[a].op = "Insert" /\ calls[b].op = "Insert"
         /\ calls[a].key = calls[b].key /\ calls[a].node # calls[b].node
         /\ calls[a].ret = "nil" /\ calls[b].ret = "nil"
         /\ ~calls[a].cacheErr /\ ~calls[b].cacheErr)
        => /\ store[calls[a].key] # Nil
           /\ cache[calls[a].key] = Some(Marshal(store[calls[a].key][1]))

\* C36 (getNetworkDatasetIdentifiers and its worker): the worker never sends
\* on a closed channel, is never left at an unbuffered send once the handler
\* has returned, and the handler writes exactly one response.
C36_IdentifiersWorkerTerminates ==
    /\ idsReq.wpc # "panic"
    /\ idsReq.hpc = "returned" => idsReq.wpc \notin {"sendErr", "sendSets"}
    /\ idsReq.hpc = "returned" =>
         /\ Len(idsReq.w.headerCalls) = 1
         /\ idsReq.w.status \in {"408", "400", "200"}

\* C37 (no success after a failed fetch): when the fetch of getDatasetMetadata
\* or getDataset returned an error, the status sent is not 200, no
\* WriteHeader(200) is made and the error text is the only body written.
C37_NoSuccessAfterFailedFetch ==
    (muxResp.fetched /\ muxResp.fetchErr # "nil")
        => /\ muxResp.w.status # "200"
           /\ \A i \in 1..Len(muxResp.w.headerCalls) : muxResp.w.headerCalls[i] # "200"
           /\ Len(muxResp.w.body) = 1
=============================================================================
